---------------------------- MODULE Spec2Model ----------------------------
(***************************************************************************)
(* A model of beetsplug/bandcamp: the release context (names.py, class     *)
(* Names) and the track record (track.py, class Track).                    *)
(*                                                                         *)
(* A Python str is a sequence of one-character strings; the two Unicode    *)
(* dashes U+2013 and U+2014 are the atoms "u2013" and "u2014".  A value    *)
(* that may be None, and a dict key that may be missing, is a sequence of  *)
(* length 0 (None / missing) or 1 (the value).  An operation that can      *)
(* raise yields a record whose field exc names the exception ("none" when  *)
(* it returns).                                                            *)
(***************************************************************************)
EXTENDS Integers, Sequences, FiniteSets, TLC

(***************************************************************************)
(* Bounds of the model.                                                    *)
(***************************************************************************)
\* the longest list of titles handed to a stage function
MaxTitles == 3

\* the most tracks a release of the model lists
MaxTracks == 2

\* the most assignments of titles the model counts
MaxAssignments == 2

(***************************************************************************)
(* Characters and the character classes of Python's re module.             *)
(***************************************************************************)
None == <<>>

Some(v) == <<v>>

UpperSeq == <<"A","B","C","D","E","F","G","H","I","J","K","L","M","N","O","P","Q","R","S","T","U","V","W","X","Y","Z">>

LowerSeq == <<"a","b","c","d","e","f","g","h","i","j","k","l","m","n","o","p","q","r","s","t","u","v","w","x","y","z">>

DigitSeq == <<"0","1","2","3","4","5","6","7","8","9">>

Range(f) == {f[i] : i \in DOMAIN f}

Uppers == Range(UpperSeq)

Lowers == Range(LowerSeq)

Digits == Range(DigitSeq)

\* \d
IsDigit(c) == c \in Digits

\* \w
IsWord(c) == c \in Uppers \cup Lowers \cup Digits \cup {"_"}

\* \s
IsSpace(c) == c \in {" ", "\t"}

\* str.lower() on one character
LowerChar(c) == IF c \in Uppers THEN LowerSeq[CHOOSE i \in DOMAIN UpperSeq : UpperSeq[i] = c] ELSE c

\* str.lower()
Lower(s) == [i \in DOMAIN s |-> LowerChar(s[i])]

\* int() of one decimal digit
DigitVal(c) == (CHOOSE i \in DOMAIN DigitSeq : DigitSeq[i] = c) - 1

(***************************************************************************)
(* Python's str operations.  Positions are 1-based; a slice s[a..b] is     *)
(* Slice(s, a, b) and is empty when a > b.                                 *)
(***************************************************************************)
Slice(s, a, b) == IF a > b THEN <<>> ELSE SubSeq(s, a, b)

\* the element of a one-element set; The({e(v) : v \in {x}}) is e(x) with x
\* evaluated once
The(S) == CHOOSE x \in S : TRUE

\* the least element of a non-empty set of integers
Min(S) == CHOOSE x \in S : \A y \in S : x <= y

\* s[i:].startswith(sub), i 1-based
MatchAt(s, i, sub) == /\ i >= 1
                      /\ i + Len(sub) - 1 <= Len(s)
                      /\ \A k \in 1..Len(sub) : s[i + k - 1] = sub[k]

\* the same, ignoring case (re.I on a literal)
MatchAtI(s, i, sub) == /\ i >= 1
                       /\ i + Len(sub) - 1 <= Len(s)
                       /\ \A k \in 1..Len(sub) : LowerChar(s[i + k - 1]) = LowerChar(sub[k])

\* str.startswith
StartsWith(s, sub) == MatchAt(s, 1, sub)

\* sub in s
Contains(s, sub) == \E i \in 1..(Len(s) + 1) : MatchAt(s, i, sub)

\* str.find from position i: the first position >= i where sub occurs, 0 when none
Find(s, sub, i) == IF \E j \in i..(Len(s) + 1) : MatchAt(s, j, sub)
                   THEN CHOOSE j \in i..(Len(s) + 1) :
                            /\ MatchAt(s, j, sub)
                            /\ \A k \in i..(j - 1) : ~MatchAt(s, k, sub)
                   ELSE 0

RECURSIVE ReplaceFrom(_, _, _, _)
ReplaceFrom(s, old, new, i) ==
    IF i > Len(s) THEN <<>>
    ELSE IF MatchAt(s, i, old) THEN new \o ReplaceFrom(s, old, new, i + Len(old))
    ELSE <<s[i]>> \o ReplaceFrom(s, old, new, i + 1)

RECURSIVE Interleave(_, _)
\* "abc".replace("", new): new before every character and at the end
Interleave(s, new) == IF s = <<>> THEN new ELSE new \o <<Head(s)>> \o Interleave(Tail(s), new)

\* str.replace(old, new): every non-overlapping occurrence, left to right
Replace(s, old, new) == IF old = <<>> THEN Interleave(s, new) ELSE ReplaceFrom(s, old, new, 1)

RECURSIVE LStrip(_, _)
\* str.lstrip(chars)
LStrip(s, chars) == IF s # <<>> /\ Head(s) \in chars THEN LStrip(Tail(s), chars) ELSE s

RECURSIVE RStrip(_, _)
\* str.rstrip(chars)
RStrip(s, chars) == IF s # <<>> /\ s[Len(s)] \in chars THEN RStrip(Slice(s, 1, Len(s) - 1), chars) ELSE s

\* str.strip(chars)
Strip(s, chars) == RStrip(LStrip(s, chars), chars)

\* str.strip()
StripWs(s) == Strip(s, {" ", "\t"})

RECURSIVE SplitWsFrom(_, _, _)
\* str.split(): the maximal runs of non-whitespace characters
SplitWsFrom(s, i, cur) ==
    IF i > Len(s) THEN (IF cur = <<>> THEN <<>> ELSE <<cur>>)
    ELSE IF IsSpace(s[i]) THEN (IF cur = <<>> THEN <<>> ELSE <<cur>>) \o SplitWsFrom(s, i + 1, <<>>)
    ELSE SplitWsFrom(s, i + 1, Append(cur, s[i]))

SplitWs(s) == SplitWsFrom(s, 1, <<>>)

\* str.split(sep, 1)
SplitOnce(s, sep) ==
    LET j == Find(s, sep, 1)
    IN  IF j = 0 THEN <<s>> ELSE <<Slice(s, 1, j - 1), Slice(s, j + Len(sep), Len(s))>>

RECURSIVE SplitAll(_, _)
\* str.split(sep)
SplitAll(s, sep) ==
    LET j == Find(s, sep, 1)
    IN  IF j = 0 THEN <<s>> ELSE <<Slice(s, 1, j - 1)>> \o SplitAll(Slice(s, j + Len(sep), Len(s)), sep)

RECURSIVE Join(_, _)
\* sep.join(parts)
Join(sep, parts) ==
    IF parts = <<>> THEN <<>>
    ELSE IF Len(parts) = 1 THEN parts[1]
    ELSE parts[1] \o sep \o Join(sep, Tail(parts))

\* the length of the longest run of characters of class P (a set) starting at i
RunLen(s, i, P) ==
    LET stops == {j \in i..Len(s) : s[j] \notin P}
    IN  IF i > Len(s) THEN 0 ELSE IF stops = {} THEN Len(s) - i + 1 ELSE Min(stops) - i

\* the length of the run of digits starting at i
DigitRun(s, i) == RunLen(s, i, Digits)

\* the length of the run of \W characters starting at i
NonWordRun(s, i) ==
    LET stops == {j \in i..Len(s) : IsWord(s[j])}
    IN  IF i > Len(s) THEN 0 ELSE IF stops = {} THEN Len(s) - i + 1 ELSE Min(stops) - i

\* the length of the run of \s characters starting at i
SpaceRun(s, i) == RunLen(s, i, {" ", "\t"})

(***************************************************************************)
(* names.py: the stage functions of class Names.                           *)
(***************************************************************************)

\* NUMBER_PREFIX = ((?<=^)|(?<=- ))\d{1,2}\W+(?=\D), tried at position i:
\* the length of the match there, 0 when it does not match.  \d{1,2} takes
\* the digits it can (one digit less leaves a digit where \W+ must start),
\* \W+ takes its whole run and gives one character back when the run ends
\* the string or is followed by a digit.
NumberPrefixLenAt(s, i) ==
    LET anchored == i = 1 \/ (i >= 3 /\ s[i - 2] = "-" /\ s[i - 1] = " ")
        d == DigitRun(s, i)
        r == NonWordRun(s, i + d)
        after == i + d + r
        w == IF after <= Len(s) /\ ~IsDigit(s[after]) THEN r ELSE r - 1
    IN  IF anchored /\ d \in {1, 2} /\ w >= 1 THEN d + w ELSE 0

\* NUMBER_PREFIX.search(n): None, or the matched text p.group()
NumberPrefixSearch(s) ==
    LET hits == {i \in 1..Len(s) : NumberPrefixLenAt(s, i) > 0}
    IN  IF hits = {} THEN None
        ELSE LET i == Min(hits) IN Some(Slice(s, i, i + NumberPrefixLenAt(s, i) - 1))

\* Names.remove_number_prefix
remove_number_prefix(names) ==
    LET prefix_matches == [i \in DOMAIN names |-> NumberPrefixSearch(names[i])]
        found == Cardinality({i \in DOMAIN names : prefix_matches[i] # None})
    IN  IF 2 * found > Len(names)
        THEN [i \in DOMAIN names |->
                 Replace(names[i], IF prefix_matches[i] # None THEN prefix_matches[i][1] ELSE <<>>, <<>>)]
        ELSE names

\* the characters SEPARATOR_PAT = (?<=\s)[|\u2013\u2014-](?=\s) looks for
SeparatorChars == {"|", "u2013", "u2014", "-"}

RECURSIVE SeparatorFindallFrom(_, _)
SeparatorFindallFrom(s, i) ==
    IF i > Len(s) THEN <<>>
    ELSE IF /\ s[i] \in SeparatorChars
            /\ i > 1 /\ IsSpace(s[i - 1])
            /\ i < Len(s) /\ IsSpace(s[i + 1])
         THEN <<s[i]>> \o SeparatorFindallFrom(s, i + 1)
         ELSE SeparatorFindallFrom(s, i + 1)

\* SEPARATOR_PAT.findall(n)
SeparatorFindall(s) == SeparatorFindallFrom(s, 1)

RECURSIVE Flatten(_)
Flatten(xss) == IF xss = <<>> THEN <<>> ELSE Head(xss) \o Flatten(Tail(xss))

\* how often c occurs in the list xs
Count(xs, c) == Cardinality({i \in DOMAIN xs : xs[i] = c})

\* Counter(matches).most_common(1).pop(): the element counted most often; of
\* several counted equally often, the one met first
MostCommon(matches) ==
    LET best == CHOOSE i \in DOMAIN matches :
                    /\ \A j \in DOMAIN matches : Count(matches, matches[j]) <= Count(matches, matches[i])
                    /\ \A j \in 1..(i - 1) : Count(matches, matches[j]) < Count(matches, matches[i])
    IN  <<matches[best], Count(matches, matches[best])>>

\* Names.find_common_track_delimiter
find_common_track_delimiter(names) ==
    LET matches == Flatten([i \in DOMAIN names |-> SeparatorFindall(names[i])])
    IN  IF matches = <<>> THEN "-"
        ELSE LET mc == MostCommon(matches)
                 delim == mc[1]
                 count == mc[2]
             IN  IF Len(names) = 1 \/ 2 * count > Len(names) THEN delim ELSE "-"


RECURSIVE NormalizeSubFrom(_, _, _)
\* re.compile(rf"\s+[{delim}]\s+|\t").sub(" - ", n), from position i on
NormalizeSubFrom(s, delim, i) ==
    IF i > Len(s) THEN <<>>
    ELSE LET r  == SpaceRun(s, i)
             r2 == SpaceRun(s, i + r + 1)
         IN  IF r >= 1 /\ i + r <= Len(s) /\ s[i + r] = delim /\ r2 >= 1
             THEN <<" ","-"," ">> \o NormalizeSubFrom(s, delim, i + r + 1 + r2)
             ELSE IF s[i] = "\t"
             THEN <<" ","-"," ">> \o NormalizeSubFrom(s, delim, i + 1)
             ELSE <<s[i]>> \o NormalizeSubFrom(s, delim, i + 1)

\* Names.normalize_delimiter
normalize_delimiter(names) ==
    LET delim == find_common_track_delimiter(names)
    IN  [i \in DOMAIN names |-> NormalizeSubFrom(names[i], delim, 1)]

\* ([:-]+ |\[)LABEL(\]|$) with re.I, tried at position i: the length of the
\* match there, 0 when it does not match
RemoveLabelLenAt(s, label, i) ==
    LET r == RunLen(s, i, {":", "-"})
        p == IF r >= 1 /\ i + r <= Len(s) /\ s[i + r] = " " THEN i + r + 1
             ELSE IF s[i] = "[" THEN i + 1
             ELSE 0
        q == p + Len(label)
    IN  IF p = 0 \/ ~MatchAtI(s, p, label) THEN 0
        ELSE IF q <= Len(s) /\ s[q] = "]" THEN q + 1 - i
        ELSE IF q = Len(s) + 1 THEN q - i
        ELSE 0

RECURSIVE RemoveLabelSubFrom(_, _, _)
\* remove_label.sub(" ", n), from position i on
RemoveLabelSubFrom(s, label, i) ==
    IF i > Len(s) THEN <<>>
    ELSE LET n == RemoveLabelLenAt(s, label, i)
         IN  IF n > 0 THEN <<" ">> \o RemoveLabelSubFrom(s, label, i + n)
             ELSE <<s[i]>> \o RemoveLabelSubFrom(s, label, i + 1)

\* Names.remove_label, self.label given
remove_label(names, label) ==
    [i \in DOMAIN names |-> StripWs(RemoveLabelSubFrom(names[i], label, 1))]

\* ALBUM_IN_TITLE = [- ]*\[([^\]]+ [EL]P)\]+ with re.I, tried at position i:
\* None, or the match [group0, group1].  [^\]]+ stops at the first "]" after
\* the opening bracket, so " EP" or " LP" must end right there.
AlbumInTitleAt(s, i) ==
    LET r == RunLen(s, i, {"-", " "})
        o == i + r
        closers == {j \in (o + 1)..Len(s) : s[j] = "]"}
    IN  IF o > Len(s) \/ s[o] # "[" \/ closers = {} THEN None
        ELSE LET j == Min(closers)
                 e == j + RunLen(s, j, {"]"}) - 1
             IN  IF /\ j - 4 >= o + 1
                    /\ s[j - 3] = " "
                    /\ LowerChar(s[j - 2]) \in {"e", "l"}
                    /\ LowerChar(s[j - 1]) = "p"
                 THEN Some([group0 |-> Slice(s, i, e), group1 |-> Slice(s, o + 1, j - 1)])
                 ELSE None

\* ALBUM_IN_TITLE.search(n)
AlbumInTitleSearch(s) ==
    LET hits == {i \in 1..Len(s) : AlbumInTitleAt(s, i) # None}
    IN  IF hits = {} THEN None ELSE AlbumInTitleAt(s, Min(hits))

\* Names.eject_album_name: (album, names) as [side, names]
eject_album_name(names) ==
    LET matches == [i \in DOMAIN names |-> AlbumInTitleSearch(names[i])]
        albums == {Replace(matches[i][1].group1, <<"\"">>, <<>>) :
                      i \in {k \in DOMAIN names : matches[k] # None}}
    IN  IF Cardinality(albums) # 1 THEN [side |-> None, names |-> names]
        ELSE [side  |-> Some(CHOOSE a \in albums : TRUE),
              names |-> [i \in DOMAIN names |->
                            IF matches[i] # None
                            THEN Replace(names[i], matches[i][1].group0, <<>>)
                            ELSE names[i]]]

RECURSIVE BracketedSubFrom(_, _, _)
\* re.compile(rf"(?i)[([]{catalognum}[])]").sub("", n), from position i on
BracketedSubFrom(s, cat, i) ==
    IF i > Len(s) THEN <<>>
    ELSE IF /\ s[i] \in {"(", "["}
            /\ MatchAtI(s, i + 1, cat)
            /\ i + 1 + Len(cat) <= Len(s)
            /\ s[i + 1 + Len(cat)] \in {"]", ")"}
         THEN BracketedSubFrom(s, cat, i + Len(cat) + 2)
         ELSE <<s[i]>> \o BracketedSubFrom(s, cat, i + 1)

\* Names.remove_album_catalognum, self.catalognum_in_album given
remove_album_catalognum(names, catalognum_in_album) ==
    IF catalognum_in_album # None /\ catalognum_in_album[1] # <<>>
    THEN [i \in DOMAIN names |-> BracketedSubFrom(names[i], catalognum_in_album[1], 1)]
    ELSE names

(***************************************************************************)
(* The collaborators catalognum.py and helpers.py, which names.py and      *)
(* track.py import.  Their patterns are modelled by what the specification *)
(* says of them: a catalog number is a label-assigned alphanumeric         *)
(* identifier such as ABC123, here two or more capitals followed by one or *)
(* more digits, standing as a word of its own.                             *)
(***************************************************************************)

\* the length of the catalog number starting at position i, 0 when none does
CatalognumLenAt(s, i) ==
    LET u == RunLen(s, i, Uppers)
        d == DigitRun(s, i + u)
    IN  IF /\ u >= 2 /\ d >= 1
           /\ (i = 1 \/ ~IsWord(s[i - 1]))
           /\ (i + u + d > Len(s) \/ ~IsWord(s[i + u + d]))
        THEN u + d ELSE 0

\* Catalognum.in_album_pat.search / Catalognum.anywhere.search: None, or the
\* match; its whole text m[0] and its one group are the catalog number
CatalognumSearch(s) ==
    LET hits == {i \in 1..Len(s) : CatalognumLenAt(s, i) > 0}
    IN  IF hits = {} THEN None
        ELSE LET i == Min(hits) IN Some(Slice(s, i, i + CatalognumLenAt(s, i) - 1))

\* Helpers.split_artists: the artists of a comma-separated string
split_artists(value) ==
    LET split == SplitAll(value, <<",">>)
        parts == [i \in DOMAIN split |-> StripWs(split[i])]
    IN  {parts[i] : i \in {k \in DOMAIN parts : parts[k] # <<>>}}

(***************************************************************************)
(* track.py: Remix.PATTERN (re.IGNORECASE | re.VERBOSE).                   *)
(***************************************************************************)

\* the alternatives of (?P<type>...)
RemixTypes == {<<"r","e","m","i","x">>, <<"m","i","x">>, <<"r","m","x">>, <<"e","d","i","t">>, <<"b","o","o","t","l","e","g">>, <<"v","e","r","s","i","o","n">>, <<"r","e","m","a","s","t","e","r","e","d">>}

\* (?P<type>...)\b tried at position t: the length of the type there, 0 when
\* none matches ("version" only after a word character and a space)
RemixTypeLenAt(s, t) ==
    LET ok(kw) == /\ MatchAtI(s, t, kw)
                  /\ (t + Len(kw) > Len(s) \/ ~IsWord(s[t + Len(kw)]))
                  /\ (kw = <<"v","e","r","s","i","o","n">> => (t >= 3 /\ IsWord(s[t - 2]) /\ s[t - 1] = " "))
        found == {kw \in RemixTypes : ok(kw)}
    IN  IF t < 1 \/ t > Len(s) \/ found = {} THEN 0 ELSE Len(CHOOSE kw \in found : TRUE)

\* the length of the run [^])]* starting at i
NotCloserRun(s, i) ==
    LET stops == {j \in i..Len(s) : s[j] \in {"]", ")"}}
    IN  IF i > Len(s) THEN 0 ELSE IF stops = {} THEN Len(s) - i + 1 ELSE Min(stops) - i

\* the opening delimiter tried at position o: "b" for \[, "p" for \((?!.*\(),
\* "d" for (?<!-)-\ (?!.*([([]|\ -\ )), "" when none matches
RemixOpenKind(s, o) ==
    IF o < 1 \/ o > Len(s) THEN ""
    ELSE IF s[o] = "[" THEN "b"
    ELSE IF s[o] = "(" /\ \A j \in (o + 1)..Len(s) : s[j] # "(" THEN "p"
    ELSE IF /\ s[o] = "-"
            /\ o + 1 <= Len(s) /\ s[o + 1] = " "
            /\ (o = 1 \/ s[o - 1] # "-")
            /\ \A j \in (o + 2)..Len(s) : s[j] \notin {"[", "("} /\ ~MatchAt(s, j, <<" ","-"," ">>)
         THEN "d"
    ELSE ""

\* the last position of the match whose type starts at t, 0 when the closing
\* bracket the opening delimiter asks for is not the first one after the type
RemixEndFrom(s, kind, t) ==
    LET closed(c) == IF kind = "d" THEN c - 1
                     ELSE IF c <= Len(s) /\ s[c] = (IF kind = "b" THEN "]" ELSE ")") THEN c
                     ELSE 0
    IN  The({IF n = 0 THEN 0 ELSE The({closed(c) : c \in {t + n + NotCloserRun(s, t + n)}})
             : n \in {RemixTypeLenAt(s, t)}})

\* the match with the opening delimiter at o: its last position, 0 when none.
\* (?P<remixer>['"]?\b\w.*?|) is tried with a remixer first (.*? is lazy: the
\* first type after it that completes the match), then without one.
RemixEndWithOpener(s, o) ==
    LET from(kind) ==
            LET q  == IF kind = "d" THEN o + 2 ELSE o + 1
                qq == IF q <= Len(s) /\ s[q] \in {"'", "\""} THEN q + 1 ELSE q
                withRemixer == IF qq <= Len(s) /\ IsWord(s[qq])
                               THEN {t \in (qq + 1)..Len(s) : RemixEndFrom(s, kind, t) > 0}
                               ELSE {}
                bare == q + RunLen(s, q, {" "})
            IN  IF kind = "" THEN 0
                ELSE The({IF ts # {} THEN RemixEndFrom(s, kind, Min(ts)) ELSE RemixEndFrom(s, kind, bare)
                          : ts \in {withRemixer}})
    IN  The({from(kind) : kind \in {RemixOpenKind(s, o)}})

\* Remix.PATTERN tried at position i: the last position of the match, 0 when
\* it does not match there.  "\ *" takes the run of spaces, "\(?" a parenthesis
\* when there is one (and gives it back when that fails).
RemixEndAt(s, i) ==
    LET at(p) == The({IF taken > 0 THEN taken ELSE RemixEndWithOpener(s, p)
                      : taken \in {IF p <= Len(s) /\ s[p] = "(" THEN RemixEndWithOpener(s, p + 1) ELSE 0}})
    IN  The({at(p) : p \in {i + RunLen(s, i, {" "})}})

\* bool(Remix.PATTERN.search(x))
RemixSearch(s) == \E i \in 1..Len(s) : RemixEndAt(s, i) > 0

RECURSIVE RemixSubFrom(_, _)
\* Remix.PATTERN.sub("", x), from position i on
RemixSubFrom(s, i) ==
    IF i > Len(s) THEN <<>>
    ELSE The({IF e > 0 THEN RemixSubFrom(s, e + 1) ELSE <<s[i]>> \o RemixSubFrom(s, i + 1)
              : e \in {RemixEndAt(s, i)}})

RemixSub(s) == The({RemixSubFrom(v, 1) : v \in {s}})

(***************************************************************************)
(* names.py: the two stages that read the collaborators.                   *)
(***************************************************************************)

\* the loop body of eject_common_catalognum for one word
EjectWord(acc, word, common) ==
    IF word \in common /\ CatalognumSearch(word) # None
    THEN [side  |-> CatalognumSearch(word),
          names |-> [i \in DOMAIN acc.names |->
                        Strip(Replace(acc.names[i], word, <<>>), {"|", "-", " "})]]
    ELSE acc

\* Names.eject_common_catalognum: (catalognum, names) as [exc, side, names];
\* names_tokens[0] and first_name_words[0] raise IndexError when there is no
\* title or the first title has no word
eject_common_catalognum(names) ==
    LET names_tokens == [i \in DOMAIN names |-> SplitWs(names[i])]
        common == IF names = <<>> THEN {}
                  ELSE {w \in Range(names_tokens[1]) :
                           \A i \in DOMAIN names : w \in Range(names_tokens[i])}
    IN  IF names = <<>> \/ names_tokens[1] = <<>>
        THEN [exc |-> "IndexError", side |-> None, names |-> names]
        ELSE LET first == names_tokens[1]
                 acc0 == [side |-> None, names |-> names]
                 acc1 == EjectWord(acc0, first[1], common)
                 acc2 == EjectWord(acc1, first[Len(first)], common)
             IN  [exc |-> "none", side |-> acc2.side, names |-> acc2.names]

\* Names.ensure_artist_first, self.album_artist given
ensure_artist_first(names, album_artist) ==
    LET splits == [i \in DOMAIN names |-> SplitOnce(names[i], <<" ","-"," ">>)]
        unique_titles == {splits[i][2] : i \in DOMAIN names}
        remixes == Cardinality({i \in DOMAIN names : RemixSearch(splits[i][1])})
    IN  IF /\ \A i \in DOMAIN names : Len(splits[i]) > 1
           /\ \/ /\ Cardinality(unique_titles) = 1
                 /\ split_artists(CHOOSE t \in unique_titles : TRUE)
                        \cap split_artists(album_artist) # {}
              \/ remixes > 1
        THEN [i \in DOMAIN names |-> splits[i][2] \o <<" ","-"," ">> \o splits[i][1]]
        ELSE names

(***************************************************************************)
(* The state.  A release context (class Names): its dataclass fields and   *)
(* the values its cached properties have stored in the instance.  A track  *)
(* record (class Track): the JSON it is made from, its fields and its      *)
(* cached properties.  The stage functions of Names, which are class and   *)
(* static methods, have the list they are applied to.                      *)
(***************************************************************************)
VARIABLES
    meta,                  \* Names.meta: the release's JSON (read only)
    album_artist,          \* Names.album_artist
    album_in_titles,       \* Names.album_in_titles
    catalognum_in_titles,  \* Names.catalognum_in_titles
    titles,                \* Names.titles
    cache,                 \* the cached properties of the Names instance
    resolved,              \* history: resolve() has returned
    assignments,           \* history: how often self.titles has been assigned
    last,                  \* the last operation on the Names instance and its outcome
    json,                  \* the JSON of one track
    track,                 \* the Track instance: None before it is made
    tcache,                \* the cached properties of the Track instance
    tlast,                 \* the last operation on the Track and its outcome
    stage_names,           \* the list of titles the stage functions work on
    stage_last             \* the last stage function applied: its argument and result

vars == <<meta, album_artist, album_in_titles, catalognum_in_titles, titles, cache,
          resolved, assignments, last, json, track, tcache, tlast, stage_names, stage_last>>

names_vars == <<meta, album_artist, album_in_titles, catalognum_in_titles, titles, cache,
                resolved, assignments, last>>

track_vars == <<json, track, tcache, tlast>>

stage_vars == <<stage_names, stage_last>>

(***************************************************************************)
(* names.py: the cached properties of Names, as functions of what they     *)
(* read.                                                                   *)
(***************************************************************************)

\* Names.label: [exc, val].  meta.get("inAlbum", meta)["albumRelease"][0]
\* ["recordLabel"] raises KeyError or IndexError, which is caught;
\* meta["publisher"] in the handler raises KeyError, which is not.
label(m) ==
    LET src == IF m.inAlbum # None THEN m.inAlbum[1].albumRelease ELSE m.albumRelease
        found == /\ src # None
                 /\ src[1] # <<>>
                 /\ src[1][1].recordLabel # None
        item == IF found THEN src[1][1].recordLabel ELSE m.publisher
    IN  IF item = None THEN [exc |-> "KeyError", val |-> <<>>]
        ELSE [exc |-> "none", val |-> IF item[1].name = None THEN <<>> ELSE item[1].name[1]]

\* Names.original_album
original_album(m) == m.name

\* Names.singleton
singleton(m) == m.track = None

\* Names.json_tracks
json_tracks(m, is_singleton, artist) ==
    IF is_singleton THEN <<[name |-> m.name, byArtist |-> Some(artist)]>>
    ELSE IF m.track[1].itemListElement # None /\ m.track[1].itemListElement[1] # <<>>
    THEN [i \in DOMAIN m.track[1].itemListElement[1] |-> m.track[1].itemListElement[1][i].item]
    ELSE <<>>

\* Names.original_titles
original_titles(tracks) == [i \in DOMAIN tracks |-> tracks[i].name]

\* Names._catalognum_in_album_match
catalognum_in_album_match(album_name) == CatalognumSearch(album_name)

\* Names.catalognum_in_album: next(filter(None, m.groups()))
catalognum_in_album(m) == m

\* Names.album
album(m, album_name) == IF m # None THEN Replace(album_name, m[1], <<>>) ELSE album_name

\* a mutant of Names.catalognum: the false-positive guard against album_artist left out
catalognum_Unguarded(in_album, in_titles, artist) ==
    IF in_album # None /\ in_album[1] # <<>> THEN in_album
    ELSE IF in_titles # None /\ in_titles[1] # <<>> THEN in_titles
    ELSE None

\* Names.catalognum
catalognum(in_album, in_titles, artist) ==
    IF in_album # None /\ in_album[1] # <<>> /\ in_album[1] # artist THEN in_album
    ELSE IF in_titles # None /\ in_titles[1] # <<>> /\ in_titles[1] # artist THEN in_titles
    ELSE None

(***************************************************************************)
(* functools.cached_property: a read returns the value stored in the       *)
(* instance when there is one, and computes and stores it otherwise.  Each *)
(* read below yields the cache after it (c) and the value (val).           *)
(***************************************************************************)
EmptyCache == [label |-> None, original_album |-> None, singleton |-> None,
               json_tracks |-> None, original_titles |-> None,
               catalognum_in_album_match |-> None, catalognum_in_album |-> None,
               album |-> None, catalognum |-> None]

Get_label(c) ==
    IF c.label # None THEN [c |-> c, exc |-> "none", val |-> c.label[1]]
    ELSE LET r == label(meta)
         IN  IF r.exc # "none" THEN [c |-> c, exc |-> r.exc, val |-> r.val]
             ELSE [c |-> [c EXCEPT !.label = Some(r.val)], exc |-> "none", val |-> r.val]

Get_original_album(c) ==
    IF c.original_album # None THEN [c |-> c, val |-> c.original_album[1]]
    ELSE LET v == original_album(meta)
         IN  [c |-> [c EXCEPT !.original_album = Some(v)], val |-> v]

Get_singleton(c) ==
    IF c.singleton # None THEN [c |-> c, val |-> c.singleton[1]]
    ELSE LET v == singleton(meta)
         IN  [c |-> [c EXCEPT !.singleton = Some(v)], val |-> v]

Get_json_tracks(c) ==
    IF c.json_tracks # None THEN [c |-> c, val |-> c.json_tracks[1]]
    ELSE LET r == Get_singleton(c)
             v == json_tracks(meta, r.val, album_artist)
         IN  [c |-> [r.c EXCEPT !.json_tracks = Some(v)], val |-> v]

Get_original_titles(c) ==
    IF c.original_titles # None THEN [c |-> c, val |-> c.original_titles[1]]
    ELSE LET r == Get_json_tracks(c)
             v == original_titles(r.val)
         IN  [c |-> [r.c EXCEPT !.original_titles = Some(v)], val |-> v]

Get_catalognum_in_album_match(c) ==
    IF c.catalognum_in_album_match # None THEN [c |-> c, val |-> c.catalognum_in_album_match[1]]
    ELSE LET r == Get_original_album(c)
             v == catalognum_in_album_match(r.val)
         IN  [c |-> [r.c EXCEPT !.catalognum_in_album_match = Some(v)], val |-> v]

Get_catalognum_in_album(c) ==
    IF c.catalognum_in_album # None THEN [c |-> c, val |-> c.catalognum_in_album[1]]
    ELSE LET r == Get_catalognum_in_album_match(c)
             v == catalognum_in_album(r.val)
         IN  [c |-> [r.c EXCEPT !.catalognum_in_album = Some(v)], val |-> v]

\* self.original_album is read only when the pattern matched
Get_album(c) ==
    IF c.album # None THEN [c |-> c, val |-> c.album[1]]
    ELSE LET r == Get_catalognum_in_album_match(c)
             r2 == Get_original_album(r.c)
             v == album(r.val, r2.val)
         IN  [c |-> [r2.c EXCEPT !.album = Some(v)], val |-> v]

Get_catalognum(c) ==
    IF c.catalognum # None THEN [c |-> c, val |-> c.catalognum[1]]
    ELSE LET r == Get_catalognum_in_album(c)
             v == catalognum(r.val, catalognum_in_titles, album_artist)
         IN  [c |-> [r.c EXCEPT !.catalognum = Some(v)], val |-> v]


\* a mutant of Names.resolve: the singleton's album title is added to the
\* titles instead of replacing them
resolve_Appending(c) ==
    LET r == Get_original_titles(c)
        r2 == Get_singleton(r.c)
        r3 == Get_album(r2.c)
    IN  IF r.val = <<>> THEN [c |-> r.c, assigned |-> FALSE, titles |-> <<>>]
        ELSE IF r2.val THEN [c |-> r3.c, assigned |-> TRUE, titles |-> Append(r.val, r3.val)]
        ELSE [c |-> r2.c, assigned |-> TRUE, titles |-> r.val]

\* a mutant of Names.resolve: the titles are added to those the instance
\* holds (self.titles += titles)
resolve_Extending(c) ==
    LET r == Get_original_titles(c)
        r2 == Get_singleton(r.c)
        r3 == Get_album(r2.c)
    IN  IF r.val = <<>> THEN [c |-> r.c, assigned |-> FALSE, titles |-> <<>>]
        ELSE IF r2.val THEN [c |-> r3.c, assigned |-> TRUE, titles |-> titles \o <<r3.val>>]
        ELSE [c |-> r2.c, assigned |-> TRUE, titles |-> titles \o r.val]

\* Names.resolve: the cache after it, whether self.titles is assigned, and
\* the value assigned
resolve(c) ==
    LET r == Get_original_titles(c)
        r2 == Get_singleton(r.c)
        r3 == Get_album(r2.c)
    IN  IF r.val = <<>> THEN [c |-> r.c, assigned |-> FALSE, titles |-> <<>>]
        ELSE IF r2.val THEN [c |-> r3.c, assigned |-> TRUE, titles |-> <<r3.val>>]
        ELSE [c |-> r2.c, assigned |-> TRUE, titles |-> r.val]

(***************************************************************************)
(* The releases of the model.                                              *)
(***************************************************************************)
\* the names of the tracks of a listed release
TrackNamePool == {<<"A","b"," ","-"," ","T">>, <<"1","."," ","C","d">>, <<"X","Y","9"," ","[","L","b"," ","E","P","]">>}

\* track.itemListElement: up to MaxTracks tracks
TrackLists == UNION {[1..n -> {[item |-> [name |-> t, byArtist |-> None]] : t \in TrackNamePool}] :
                        n \in 0..MaxTracks}

\* the release of the specification's example
ExampleTracks == <<[item |-> [name |-> <<"0","1","."," ","A","r","t","i","s","t"," ","-"," ","T","r","a","c","k"," ","O","n","e"," ","[","L","a","b","e","l"," ","E","P","]">>, byArtist |-> None]],
                   [item |-> [name |-> <<"0","2","."," ","A","r","t","i","s","t"," ","-"," ","T","r","a","c","k"," ","T","w","o"," ","[","L","a","b","e","l"," ","E","P","]">>, byArtist |-> None]]>>

\* meta["track"]: missing (a singleton), without itemListElement, or a list
TrackVariants == {Some([itemListElement |-> None])}
                 \cup {Some([itemListElement |-> Some(l)]) : l \in TrackLists \cup {ExampleTracks}}

LabelRecord(n) == [recordLabel |-> Some([name |-> Some(n)])]

\* where the label is: inAlbum, albumRelease and publisher of meta
LabelVariants ==
    {[inAlbum |-> None, albumRelease |-> Some(<<LabelRecord(<<"L","b">>)>>), publisher |-> Some([name |-> Some(<<"P","u","b">>)])],
     [inAlbum |-> Some([albumRelease |-> Some(<<LabelRecord(<<"L","b">>)>>)]), albumRelease |-> None, publisher |-> None],
     [inAlbum |-> Some([albumRelease |-> None]), albumRelease |-> Some(<<LabelRecord(<<"L","b">>)>>), publisher |-> Some([name |-> Some(<<"P","u","b">>)])],
     [inAlbum |-> None, albumRelease |-> None, publisher |-> Some([name |-> Some(<<"P","u","b">>)])],
     [inAlbum |-> None, albumRelease |-> Some(<<>>), publisher |-> Some([name |-> None])],
     [inAlbum |-> None, albumRelease |-> Some(<<[recordLabel |-> Some([name |-> None])]>>), publisher |-> Some([name |-> Some(<<"P","u","b">>)])],
     [inAlbum |-> None, albumRelease |-> Some(<<[recordLabel |-> None]>>), publisher |-> None],
     [inAlbum |-> None, albumRelease |-> None, publisher |-> None]}

DefaultLabel == [inAlbum |-> None, albumRelease |-> Some(<<LabelRecord(<<"L","a","b","e","l">>)>>), publisher |-> None]

\* the titles of the singleton releases
AlbumNames == {<<"A","B","C","1","2","3"," ","M","y"," ","S","o","n","g">>, <<"M","y"," ","S","o","n","g">>, <<"X","Y","9"," ","S","o","n","g"," ","X","Y","9">>}

Meta(album_name, tracks, lv) ==
    [name |-> album_name, track |-> tracks, inAlbum |-> lv.inAlbum,
     albumRelease |-> lv.albumRelease, publisher |-> lv.publisher]

MetaPool == {Meta(n, None, DefaultLabel) : n \in AlbumNames}
            \cup {Meta(<<"A","l","b","u","m"," ","A","B","C","1","2","3">>, t, DefaultLabel) : t \in TrackVariants}
            \cup {Meta(<<"A","l","b","u","m">>, None, lv) : lv \in LabelVariants}

ArtistPool == {<<"A","r","t","i","s","t">>, <<"X","Y","9">>}

\* what a caller assigns to catalognum_in_titles
CatalognumPool == {<<"X","Y","9">>}

(***************************************************************************)
(* The release context: construction and the operations on it.             *)
(***************************************************************************)
NoOp == [op |-> "new", exc |-> "none", val |-> <<>>]

\* Names(meta, album_artist): the dataclass defaults of the other fields
NamesInit ==
    /\ meta \in MetaPool
    /\ album_artist \in ArtistPool
    /\ album_in_titles = None
    /\ catalognum_in_titles = None
    /\ titles = <<>>
    /\ cache = EmptyCache
    /\ resolved = FALSE
    /\ assignments = 0
    /\ last = NoOp

\* a read of a cached property that cannot raise
Read(name, r) ==
    /\ cache' = r.c
    /\ last' = [op |-> name, exc |-> "none", val |-> r.val]
    /\ UNCHANGED <<meta, album_artist, album_in_titles, catalognum_in_titles, titles, resolved, assignments>>
    /\ UNCHANGED <<track_vars, stage_vars>>

ReadLabel ==
    LET r == Get_label(cache)
    IN  /\ cache' = r.c
        /\ last' = [op |-> "label", exc |-> r.exc, val |-> r.val]
        /\ UNCHANGED <<meta, album_artist, album_in_titles, catalognum_in_titles, titles, resolved, assignments>>
        /\ UNCHANGED <<track_vars, stage_vars>>

ReadOriginalAlbum == Read("original_album", Get_original_album(cache))

ReadSingleton == Read("singleton", Get_singleton(cache))

ReadJsonTracks == Read("json_tracks", Get_json_tracks(cache))

ReadOriginalTitles == Read("original_titles", Get_original_titles(cache))

ReadCatalognumInAlbum == Read("catalognum_in_album", Get_catalognum_in_album(cache))

ReadAlbum == Read("album", Get_album(cache))

ReadCatalognum == Read("catalognum", Get_catalognum(cache))

\* names.resolve()
Resolve ==
    LET r == resolve(cache)
    IN  /\ r.assigned => assignments < MaxAssignments
        /\ cache' = r.c
        /\ titles' = IF r.assigned THEN r.titles ELSE titles
        /\ assignments' = IF r.assigned THEN assignments + 1 ELSE assignments
        /\ resolved' = TRUE
        /\ last' = [op |-> "resolve", exc |-> "none", val |-> <<>>]
        /\ UNCHANGED <<meta, album_artist, album_in_titles, catalognum_in_titles>>
        /\ UNCHANGED <<track_vars, stage_vars>>

\* names.catalognum_in_titles = v: the field of the (not frozen) dataclass
\* that holds the catalog number found in the titles
AssignCatalognumInTitles ==
    \E v \in CatalognumPool :
        /\ catalognum_in_titles' = Some(v)
        /\ last' = [op |-> "assign", exc |-> "none", val |-> Some(v)]
        /\ UNCHANGED <<meta, album_artist, album_in_titles, titles, cache, resolved, assignments>>
        /\ UNCHANGED <<track_vars, stage_vars>>

(***************************************************************************)
(* track.py: class Track.                                                  *)
(***************************************************************************)

\* the fields of the dataclass, by name: the keywords Track(**data) accepts
FieldChars == [json_item |-> <<"j","s","o","n","_","i","t","e","m">>, track_id |-> <<"t","r","a","c","k","_","i","d">>, index |-> <<"i","n","d","e","x">>,
               medium_index |-> <<"m","e","d","i","u","m","_","i","n","d","e","x">>, json_artist |-> <<"j","s","o","n","_","a","r","t","i","s","t">>,
               name |-> <<"n","a","m","e">>, ft |-> <<"f","t">>, catalognum |-> <<"c","a","t","a","l","o","g","n","u","m">>,
               ft_artist |-> <<"f","t","_","a","r","t","i","s","t">>, remix |-> <<"r","e","m","i","x">>, digi_only |-> <<"d","i","g","i","_","o","n","l","y">>,
               track_alt |-> <<"t","r","a","c","k","_","a","l","t">>, album_artist |-> <<"a","l","b","u","m","_","a","r","t","i","s","t">>]

\* the defaults of the fields
TrackDefaults == [json_item |-> None, track_id |-> <<>>, index |-> None, medium_index |-> None,
                  json_artist |-> <<>>, name |-> <<>>, ft |-> <<>>, catalognum |-> None,
                  ft_artist |-> <<>>, remix |-> None, digi_only |-> FALSE, track_alt |-> None,
                  album_artist |-> None]

\* Track.parse_name: the dict it returns, as its (key, value) pairs in order.
\* The first key is the value of name, not the string "name".
parse_name(name, artist, index) ==
    << <<name, name>>, <<<<"j","s","o","n","_","a","r","t","i","s","t">>, artist>>, <<<<"d","i","g","i","_","o","n","l","y">>, FALSE>> >>

RECURSIVE ApplyKeywords(_, _)
\* cls(**data): every key must name a field (else TypeError); a key given
\* twice in the dict keeps its last value
ApplyKeywords(rec, pairs) ==
    IF pairs = <<>> THEN [exc |-> "none", val |-> rec]
    ELSE LET key == Head(pairs)[1]
             fields == {f \in DOMAIN FieldChars : FieldChars[f] = key}
         IN  IF fields = {} THEN [exc |-> "TypeError", val |-> rec]
             ELSE ApplyKeywords([rec EXCEPT ![CHOOSE f \in fields : TRUE] = Head(pairs)[2]],
                                Tail(pairs))

\* Track.make: [exc, val]
make(j) ==
    LET artist == IF j.byArtist = None \/ j.byArtist[1].name = None THEN <<>>
                  ELSE j.byArtist[1].name[1]
        index == j.position
        data == << <<<<"j","s","o","n","_","i","t","e","m">>, Some(j)>>, <<<<"t","r","a","c","k","_","i","d">>, j.id>>, <<<<"i","n","d","e","x">>, index>>,
                   <<<<"a","l","b","u","m","_","a","r","t","i","s","t">>, j.album_artist>> >>
                \o parse_name(j.name, artist, index)
    IN  ApplyKeywords(TrackDefaults, data)

RECURSIVE ParseInt(_)
\* int() of a string of digits
ParseInt(ds) == IF ds = <<>> THEN 0 ELSE 10 * ParseInt(Slice(ds, 1, Len(ds) - 1)) + DigitVal(ds[Len(ds)])

RECURSIVE NumberFindallFrom(_, _)
\* NUMBER_PAT = \d+, findall from position i on
NumberFindallFrom(s, i) ==
    IF i > Len(s) THEN <<>>
    ELSE LET d == DigitRun(s, i)
         IN  IF d > 0 THEN <<Slice(s, i, i + d - 1)>> \o NumberFindallFrom(s, i + d)
             ELSE NumberFindallFrom(s, i + 1)

\* Track.duration: [exc, val].  A missing key is caught (KeyError); the
\* unpacking h, m, s = ... raises ValueError unless there are three numbers.
duration(t) ==
    IF t.json_item = None \/ t.json_item[1].duration = None THEN [exc |-> "none", val |-> None]
    ELSE LET nums == NumberFindallFrom(t.json_item[1].duration[1], 1)
         IN  IF Len(nums) # 3 THEN [exc |-> "ValueError", val |-> None]
             ELSE [exc |-> "none",
                   val |-> Some(ParseInt(nums[1]) * 3600 + ParseInt(nums[2]) * 60 + ParseInt(nums[3]))]

\* DELIM_NOT_INSIDE_PARENS = (?<!-)(?<!^live)(?<!sample\ pack) - (?!-|[^([]+\w[])])
\* with re.I: whether it matches at position i
DelimAt(s, i) ==
    LET j == i + 3
    IN  /\ MatchAt(s, i, <<" ","-"," ">>)
        /\ ~(i > 1 /\ s[i - 1] = "-")
        /\ ~(i = 5 /\ MatchAtI(s, 1, <<"l","i","v","e">>))
        /\ ~(i >= 12 /\ MatchAtI(s, i - 11, <<"s","a","m","p","l","e"," ","p","a","c","k">>))
        /\ ~(j <= Len(s) /\ s[j] = "-")
        /\ ~\E c \in (j + 2)..Len(s) :
               /\ s[c] \in {"]", ")"}
               /\ IsWord(s[c - 1])
               /\ \A k \in j..(c - 2) : s[k] \notin {"(", "["}

RECURSIVE DelimSplitFrom(_, _, _)
\* DELIM_NOT_INSIDE_PARENS.split(s): cur is the piece being collected
DelimSplitFrom(s, i, cur) ==
    IF i > Len(s) THEN <<cur>>
    ELSE IF DelimAt(s, i) THEN <<cur>> \o DelimSplitFrom(s, i + 3, <<>>)
    ELSE DelimSplitFrom(s, i + 1, Append(cur, s[i]))

\* Track.name_split
name_split(t) ==
    LET artist_start == Lower(t.json_artist) \o <<" ","-"," ">>
        split == DelimSplitFrom(StripWs(t.name), 1, <<>>)
    IN  IF t.json_artist # <<>> /\ StartsWith(Lower(t.name), artist_start)
        THEN <<Slice(t.name, Len(artist_start) + 1, Len(t.name))>>
        ELSE IF t.json_artist # <<>> /\ ~Contains(t.name, <<" ","-"," ">>)
        THEN <<StripWs(t.json_artist)>> \o split
        ELSE split

\* Track.title_without_remix
title_without_remix(split) == split[Len(split)]

\* whether an optional string is true in a condition: not None, not ""
Truthy(opt) == opt # None /\ opt[1] # <<>>

\* whether an optional number is true in a condition: not None, not 0
TruthyInt(opt) == opt # None /\ opt[1] # 0

\* a mutant of Track.artist: the JSON artist is used before the album artist
artist_JsonFirst(t, split) ==
    IF t.json_artist # <<>> /\ Len(split) = 1 THEN t.json_artist
    ELSE IF Truthy(t.album_artist) THEN t.album_artist[1]
    ELSE <<>>

\* Track.artist, self.name_split given.  Every Track of the model has
\* remix = None (the default; parse_name passes none), so that
\* clean_duplicate_artists is not called.
artist(t, split) ==
    IF Truthy(t.album_artist) THEN t.album_artist[1]
    ELSE IF title_without_remix(split) = <<>> THEN <<>>
    ELSE IF t.json_artist # <<>> /\ Len(split) = 1 THEN t.json_artist
    ELSE LET initial_artist == Join(<<" ","-"," ">>, Slice(split, 1, Len(split) - 1))
             removed == RemixSub(Strip(initial_artist, {",", " "}))
             final == IF removed = <<>> /\ ~TruthyInt(t.index) THEN initial_artist ELSE removed
             parts == SplitAll(Strip(final, {",", " "}), <<",">>)
         IN  Join(<<","," ">>, [i \in DOMAIN parts |-> StripWs(parts[i])])

\* the cached properties of a Track
EmptyTrackCache == [duration |-> None, name_split |-> None, title_without_remix |-> None,
                    artist |-> None]

TGet_name_split(c) ==
    IF c.name_split # None THEN [c |-> c, val |-> c.name_split[1]]
    ELSE LET v == name_split(track[1])
         IN  [c |-> [c EXCEPT !.name_split = Some(v)], val |-> v]

TGet_title_without_remix(c) ==
    IF c.title_without_remix # None THEN [c |-> c, val |-> c.title_without_remix[1]]
    ELSE LET r == TGet_name_split(c)
             v == title_without_remix(r.val)
         IN  [c |-> [r.c EXCEPT !.title_without_remix = Some(v)], val |-> v]

\* self.title_without_remix and self.name_split are read only when
\* album_artist does not decide
TGet_artist(c) ==
    IF c.artist # None THEN [c |-> c, val |-> c.artist[1]]
    ELSE IF Truthy(track[1].album_artist)
    THEN LET v == artist(track[1], name_split(track[1]))
         IN  [c |-> [c EXCEPT !.artist = Some(v)], val |-> v]
    ELSE LET r == TGet_title_without_remix(c)
             v == artist(track[1], r.c.name_split[1])
         IN  [c |-> [r.c EXCEPT !.artist = Some(v)], val |-> v]

(***************************************************************************)
(* The tracks of the model.                                                *)
(***************************************************************************)
\* track names given to Track.make
MakeNames == {<<"T","r","a","c","k"," ","O","n","e">>, <<"n","a","m","e">>, <<"f","t">>, <<"t","r","a","c","k","_","i","d">>}

\* byArtist of the track's JSON
ByArtistPool == {None, Some([name |-> None]), Some([name |-> Some(<<"A","b">>)])}

\* duration of the track's JSON
DurationPool == {None, Some(<<"0","1",":","0","2",":","0","3">>), Some(<<"P","0","0","H","0","3","M","0","7","S">>), Some(<<"0","2",":","0","3">>),
                 Some(<<"1",":","2",":","3",":","4">>), Some(<<>>)}

Json(n, a, aa, pos, d) ==
    [id |-> <<"t","1">>, name |-> n, byArtist |-> a, album_artist |-> aa, position |-> pos, duration |-> d]

JsonPool == {Json(n, a, aa, pos, Some(<<"0","1",":","0","2",":","0","3">>)) :
                n \in MakeNames, a \in ByArtistPool, aa \in {None, Some(<<>>), Some(<<"V","A">>)}, pos \in {None, Some(1)}}
            \cup {Json(<<"n","a","m","e">>, None, None, Some(1), d) : d \in DurationPool}

\* the names of the tracks constructed field by field
TrackNames == {<<"A","b"," ","-"," ","T">>, <<"A","b"," ","-"," ">>, <<"a","b"," ","-"," ","T"," ","(","x"," ","-"," ","y",")">>, <<"T">>, <<"C","d"," ","-"," ","T">>, <<"l","i","v","e"," ","-"," ","T">>, <<"T"," ","(","a"," ","-"," ","b",")">>,
               <<"C","d"," ","(","X"," ","R","e","m","i","x",")"," ","-"," ","T">>, <<"C","d",","," ","-"," ","T">>, <<>>}

(***************************************************************************)
(* The track record: construction and the reads of its properties.         *)
(***************************************************************************)
TrackInit ==
    /\ json \in JsonPool
    /\ track = None
    /\ tcache = EmptyTrackCache
    /\ tlast = NoOp

\* Track.make(json)
Make ==
    /\ track = None
    /\ LET r == make(json)
       IN  /\ track' = IF r.exc = "none" THEN Some(r.val) ELSE None
           /\ tlast' = [op |-> "make", exc |-> r.exc, val |-> <<>>]
    /\ UNCHANGED <<json, tcache>>
    /\ UNCHANGED <<names_vars, stage_vars>>

\* Track(json_item=json, name=n, json_artist=..., album_artist=..., index=...):
\* the dataclass constructor, the fields other than name taken from the JSON
\* as make takes them
NewTrack ==
    /\ track = None
    /\ \E n \in TrackNames :
           track' = Some([TrackDefaults EXCEPT
                              !.json_item = Some(json),
                              !.track_id = json.id,
                              !.index = json.position,
                              !.album_artist = json.album_artist,
                              !.json_artist = IF json.byArtist = None \/ json.byArtist[1].name = None
                                              THEN <<>> ELSE json.byArtist[1].name[1],
                              !.name = n])
    /\ tlast' = [op |-> "new", exc |-> "none", val |-> <<>>]
    /\ UNCHANGED <<json, tcache>>
    /\ UNCHANGED <<names_vars, stage_vars>>

ReadDuration ==
    /\ track # None
    /\ IF tcache.duration # None
       THEN /\ tlast' = [op |-> "duration", exc |-> "none", val |-> tcache.duration[1]]
            /\ UNCHANGED tcache
       ELSE LET r == duration(track[1])
            IN  /\ tlast' = [op |-> "duration", exc |-> r.exc, val |-> r.val]
                /\ tcache' = IF r.exc = "none" THEN [tcache EXCEPT !.duration = Some(r.val)] ELSE tcache
    /\ UNCHANGED <<json, track>>
    /\ UNCHANGED <<names_vars, stage_vars>>

TRead(name, r) ==
    /\ track # None
    /\ tcache' = r.c
    /\ tlast' = [op |-> name, exc |-> "none", val |-> r.val]
    /\ UNCHANGED <<json, track>>
    /\ UNCHANGED <<names_vars, stage_vars>>

ReadNameSplit == TRead("name_split", TGet_name_split(tcache))

ReadTitleWithoutRemix == TRead("title_without_remix", TGet_title_without_remix(tcache))

ReadArtist == TRead("artist", TGet_artist(tcache))

(***************************************************************************)
(* The stage functions, applied to lists of titles.                        *)
(***************************************************************************)
\* the titles the stage functions are tried on
TitlePool == {<<"1"," ","a","1"," ","a">>, <<"0","1","."," ","A","b"," ","-"," ","T">>, <<"A","b"," ","|"," ","T"," ","|"," ","U">>, <<"A","b"," ","|"," ","T">>, <<"T">>, <<"A","b"," ","u2013"," ","T">>}

TitleLists == UNION {[1..n -> TitlePool] : n \in 1..MaxTitles}

StageInit ==
    /\ stage_names \in TitleLists
    /\ stage_last = [op |-> "new", arg |-> <<>>, val |-> <<>>]

\* Names.remove_number_prefix(names)
RemoveNumberPrefix ==
    /\ stage_last' = [op |-> "remove_number_prefix", arg |-> stage_names,
                      val |-> remove_number_prefix(stage_names)]
    /\ stage_names' = remove_number_prefix(stage_names)
    /\ UNCHANGED <<names_vars, track_vars>>

\* Names.find_common_track_delimiter(names)
FindCommonTrackDelimiter ==
    /\ stage_last' = [op |-> "find_common_track_delimiter", arg |-> stage_names,
                      val |-> find_common_track_delimiter(stage_names)]
    /\ UNCHANGED stage_names
    /\ UNCHANGED <<names_vars, track_vars>>

\* Names.normalize_delimiter(names)
NormalizeDelimiter ==
    /\ stage_last' = [op |-> "normalize_delimiter", arg |-> stage_names,
                      val |-> normalize_delimiter(stage_names)]
    /\ stage_names' = normalize_delimiter(stage_names)
    /\ UNCHANGED <<names_vars, track_vars>>

(***************************************************************************)
(* The specifications: of the release context, of the track record and of  *)
(* the stage functions.  Each leaves the other objects unmade.             *)
(***************************************************************************)
NamesIdle ==
    /\ meta = Meta(<<"A","l","b","u","m">>, None, DefaultLabel)
    /\ album_artist = <<"A","r","t","i","s","t">>
    /\ album_in_titles = None
    /\ catalognum_in_titles = None
    /\ titles = <<>>
    /\ cache = EmptyCache
    /\ resolved = FALSE
    /\ assignments = 0
    /\ last = NoOp

TrackIdle ==
    /\ json = Json(<<"n","a","m","e">>, None, None, None, None)
    /\ track = None
    /\ tcache = EmptyTrackCache
    /\ tlast = NoOp

StageIdle ==
    /\ stage_names = <<>>
    /\ stage_last = [op |-> "new", arg |-> <<>>, val |-> <<>>]

Init == NamesInit /\ TrackIdle /\ StageIdle

Next ==
    \/ ReadLabel
    \/ ReadOriginalAlbum
    \/ ReadSingleton
    \/ ReadJsonTracks
    \/ ReadOriginalTitles
    \/ ReadCatalognumInAlbum
    \/ ReadAlbum
    \/ ReadCatalognum
    \/ Resolve
    \/ AssignCatalognumInTitles

Spec == Init /\ [][Next]_vars

InitTrack == NamesIdle /\ TrackInit /\ StageIdle

NextTrack ==
    \/ Make
    \/ NewTrack
    \/ ReadDuration
    \/ ReadNameSplit
    \/ ReadTitleWithoutRemix
    \/ ReadArtist

SpecTrack == InitTrack /\ [][NextTrack]_vars

InitStages == NamesIdle /\ TrackIdle /\ StageInit

NextStages ==
    \/ RemoveNumberPrefix
    \/ FindCommonTrackDelimiter
    \/ NormalizeDelimiter

SpecStages == InitStages /\ [][NextStages]_vars

(***************************************************************************)
(* The pipeline of Names.resolve as its comments have it (names.py, lines  *)
(* 231 to 243), for a release with tracks: what resolve would assign to    *)
(* catalognum_in_titles, album_in_titles and titles.                       *)
(***************************************************************************)
C3_Pipeline(names, in_album, lbl, artist_of_album) ==
    LET t1 == remove_album_catalognum(names, in_album)
        e2 == eject_common_catalognum(t1)
        t3 == remove_number_prefix(e2.names)
        t4 == normalize_delimiter(t3)
        t5 == remove_label(t4, lbl)
        e6 == eject_album_name(t5)
    IN  [catalognum_in_titles |-> e2.side,
         album_in_titles |-> e6.side,
         titles |-> ensure_artist_first(e6.names, artist_of_album)]

(***************************************************************************)
(* The properties.                                                         *)
(***************************************************************************)

\* C1: for every track JSON with '@id' and 'name', Track.make returns a Track
\* without raising, whose track_id is the '@id' value and whose name is the
\* given 'name' value.
C1_MakeReturnsTrack ==
    tlast.op = "make" =>
        /\ tlast.exc = "none"
        /\ track # None
        /\ track[1].track_id = json.id
        /\ track[1].name = json.name

\* the cached properties json_tracks and original_titles of the release, which
\* are functions of meta and album_artist alone
C2_json_tracks == json_tracks(meta, singleton(meta), album_artist)

C2_original_titles == original_titles(C2_json_tracks)

\* C2 as stated: in every reachable state of a release context, right after
\* construction too, len(titles) == len(json_tracks) == len(original_titles)
\* and titles keeps the order of json_tracks.
C2_LengthsAlways ==
    /\ Len(titles) = Len(C2_json_tracks)
    /\ Len(C2_json_tracks) = Len(C2_original_titles)
    /\ ~singleton(meta) => \A i \in DOMAIN titles : titles[i] = C2_json_tracks[i].name

\* C2, amended: in every state after resolve() has returned,
\* len(titles) == len(json_tracks) == len(original_titles), and the titles of
\* a release with tracks are in the order of json_tracks.
C2_LengthsOnceResolved == resolved => C2_LengthsAlways

\* resolve() has returned on a release of two tracks or more
C2_ResolvedSeveralTracks == resolved /\ Len(titles) >= 2 /\ Len(C2_json_tracks) = Len(titles)

\* C3: after resolve() on a release with tracks and non-empty
\* original_titles, titles is what the stages remove-album-catalognum,
\* eject-common-catalognum, remove-number-prefix, normalize-delimiter,
\* remove-label, eject-album-name and ensure-artist-first give in this order,
\* and catalognum_in_titles and album_in_titles are what the two ejecting
\* stages yield.
C3_ResolveAppliesStages ==
    (resolved /\ ~singleton(meta) /\ C2_original_titles # <<>>) =>
        LET p == C3_Pipeline(C2_original_titles,
                             catalognum_in_album(catalognum_in_album_match(original_album(meta))),
                             label(meta).val, album_artist)
        IN  /\ titles = p.titles
            /\ catalognum_in_titles = p.catalognum_in_titles
            /\ album_in_titles = p.album_in_titles

\* C4: for a singleton release json_tracks has exactly one entry and after
\* resolve() titles is the one-element list of the album title with the
\* catalog number stripped: 'ABC123 My Song' gives catalognum 'ABC123' and
\* titles ['My Song'].
C4_SingletonTitle ==
    singleton(meta) =>
        /\ Len(C2_json_tracks) = 1
        /\ (last.op = "catalognum" /\ meta.name = <<"A","B","C","1","2","3"," ","M","y"," ","S","o","n","g">>) => last.val = Some(<<"A","B","C","1","2","3">>)
        /\ (resolved /\ meta.name = <<"A","B","C","1","2","3"," ","M","y"," ","S","o","n","g">>) => titles = << <<"M","y"," ","S","o","n","g">> >>
        /\ resolved => titles = << StripWs(album(catalognum_in_album_match(original_album(meta)),
                                                 original_album(meta))) >>

\* what C5 says a read of catalognum returns when catalognum_in_titles is cit
C5_Expected(cit) ==
    LET in_album == catalognum_in_album(catalognum_in_album_match(original_album(meta)))
    IN  IF in_album # None /\ in_album[1] # <<>> /\ in_album[1] # album_artist THEN in_album
        ELSE IF cit # None /\ cit[1] # <<>> /\ cit[1] # album_artist THEN cit
        ELSE None

\* C5 as stated: every read of catalognum, in any order relative to the
\* assignment of catalognum_in_titles, returns catalognum_in_album when it is
\* non-empty and differs from album_artist, otherwise the current
\* catalognum_in_titles when it is non-empty and differs from album_artist,
\* otherwise None; never album_artist.
C5_ReadsCurrentFields ==
    last.op = "catalognum" =>
        /\ last.val = C5_Expected(catalognum_in_titles)
        /\ last.val # Some(album_artist)

\* C5, amended: the first read of catalognum returns catalognum_in_album when
\* it is non-empty and differs from album_artist, otherwise the
\* catalognum_in_titles of that moment when it is non-empty and differs from
\* album_artist, otherwise None; every later read returns the value of the
\* first read; album_artist is never returned.
C5_ReadsMemoized ==
    [][last'.op = "catalognum" =>
          /\ last'.val = IF cache.catalognum # None THEN cache.catalognum[1]
                         ELSE C5_Expected(catalognum_in_titles)
          /\ last'.val # Some(album_artist)]_vars

\* catalognum was read before catalognum_in_titles was assigned and is read
\* again after it
C5_ReadAfterAssignment ==
    /\ last.op = "catalognum"
    /\ catalognum_in_titles # None
    /\ C5_Expected(catalognum_in_titles) = catalognum_in_titles
    /\ last.val = None

\* C6 as stated: if album_artist is set, artist equals album_artist;
\* otherwise, if name_split has exactly one element and json_artist is
\* non-empty, artist equals json_artist.
C6_ResolutionOrder ==
    (tlast.op = "artist" /\ track # None) =>
        LET t == track[1]
        IN  /\ Truthy(t.album_artist) => tlast.val = t.album_artist[1]
            /\ (~Truthy(t.album_artist) /\ Len(name_split(t)) = 1 /\ t.json_artist # <<>>)
                   => tlast.val = t.json_artist

\* C6, amended: if album_artist is set and not empty, artist equals
\* album_artist; otherwise, if the last element of name_split is empty, artist
\* is the empty string; otherwise, if name_split has exactly one element and
\* json_artist is non-empty, artist equals json_artist.
C6_ResolutionOrderWithTitle ==
    (tlast.op = "artist" /\ track # None) =>
        LET t == track[1]
            split == name_split(t)
        IN  /\ Truthy(t.album_artist) => tlast.val = t.album_artist[1]
            /\ (~Truthy(t.album_artist) /\ split[Len(split)] = <<>>) => tlast.val = <<>>
            /\ (~Truthy(t.album_artist) /\ split[Len(split)] # <<>>
                    /\ Len(split) = 1 /\ t.json_artist # <<>>)
                   => tlast.val = t.json_artist

\* artist is read of a track without album artist whose name is its JSON
\* artist and the delimiter, nothing after it
C6_EmptyTitleRead ==
    /\ tlast.op = "artist"
    /\ track # None
    /\ ~Truthy(track[1].album_artist)
    /\ track[1].json_artist # <<>>
    /\ name_split(track[1]) = << <<>> >>
    /\ tlast.val = <<>>

\* in how many of the titles c is a separator with whitespace around it
C7_TitlesWith(names, c) ==
    Cardinality({i \in DOMAIN names : c \in Range(SeparatorFindall(names[i]))})

\* C7: find_common_track_delimiter returns a candidate other than the hyphen
\* only if it is a separator in strictly more than half of the titles; when
\* no candidate has such a majority or when candidates are tied, it returns
\* the hyphen.
C7_MajorityOfTitles ==
    stage_last.op = "find_common_track_delimiter" =>
        LET names == stage_last.arg
            d == stage_last.val
            most == {c \in SeparatorChars :
                        /\ C7_TitlesWith(names, c) > 0
                        /\ \A c2 \in SeparatorChars : C7_TitlesWith(names, c2) <= C7_TitlesWith(names, c)}
        IN  /\ d # "-" => 2 * C7_TitlesWith(names, d) > Len(names)
            /\ (\A c \in SeparatorChars \ {"-"} : 2 * C7_TitlesWith(names, c) <= Len(names)) => d = "-"
            /\ Cardinality(most) > 1 => d = "-"

\* the title s without its leading number prefix
C8_WithoutPrefix(s) ==
    LET i == Min({k \in 1..Len(s) : NumberPrefixLenAt(s, k) > 0})
    IN  Slice(s, 1, i - 1) \o Slice(s, i + NumberPrefixLenAt(s, i), Len(s))

\* C8: remove_number_prefix returns the titles unchanged unless strictly more
\* than half of them carry a number prefix; when they do, each title with a
\* prefix is returned with only that prefix removed and each title without
\* one unchanged, the list keeping its length and order.
C8_OnlyPrefixRemoved ==
    stage_last.op = "remove_number_prefix" =>
        LET names == stage_last.arg
            carrying == {i \in DOMAIN names : NumberPrefixSearch(names[i]) # None}
        IN  stage_last.val =
                IF 2 * Cardinality(carrying) > Len(names)
                THEN [i \in DOMAIN names |->
                         IF i \in carrying THEN C8_WithoutPrefix(names[i]) ELSE names[i]]
                ELSE names

\* C9: reading label never raises: it returns the record label's name of the
\* album release when there is one, else the publisher's name, and the empty
\* string when neither lookup succeeds.
C9_LabelNeverRaises ==
    last.op = "label" =>
        LET src == IF meta.inAlbum # None THEN meta.inAlbum[1].albumRelease ELSE meta.albumRelease
            item == IF src # None /\ src[1] # <<>> /\ src[1][1].recordLabel # None
                    THEN src[1][1].recordLabel
                    ELSE meta.publisher
        IN  /\ last.exc = "none"
            /\ last.val = IF item = None \/ item[1].name = None THEN <<>> ELSE item[1].name[1]

\* C10: Track.duration never raises: a duration of exactly three integers h,
\* m, s gives h*3600 + m*60 + s, a missing or malformed duration gives None.
C10_DurationNeverRaises ==
    (tlast.op = "duration" /\ track # None) =>
        LET d == track[1].json_item[1].duration
            nums == IF d = None THEN <<>> ELSE NumberFindallFrom(d[1], 1)
        IN  /\ tlast.exc = "none"
            /\ tlast.val = IF Len(nums) = 3
                           THEN Some(ParseInt(nums[1]) * 3600 + ParseInt(nums[2]) * 60 + ParseInt(nums[3]))
                           ELSE None

\* C11 as stated, of the states the reads and resolve() calls lead to: titles
\* is assigned exactly once, by resolve(), also when resolve() is called
\* again or on a release with no tracks; no other field has changed and
\* original_titles has the value it had.
C11_AssignedExactlyOnce ==
    /\ resolved => assignments = 1
    /\ ~resolved => (assignments = 0 /\ titles = <<>>)
    /\ album_in_titles = None
    /\ cache.original_titles # None => cache.original_titles[1] = C2_original_titles

\* C11, amended: over any sequence of reads of the derived properties and
\* resolve() calls, no field other than titles changes; titles is assigned by
\* resolve() only, at every call on a release with non-empty original_titles
\* (a repeated call assigns the same value again) and at no call on a release
\* without tracks, so that its value changes at most once, at the first such
\* call; original_titles holds the same value before and after every
\* operation.
C11_OnlyTitlesChanges ==
    [][last'.op # "assign" =>
          /\ UNCHANGED <<meta, album_artist, album_in_titles, catalognum_in_titles>>
          /\ assignments' = IF last'.op = "resolve" /\ C2_original_titles # <<>>
                            THEN assignments + 1 ELSE assignments
          /\ titles' # titles => (last'.op = "resolve" /\ assignments = 0 /\ titles = <<>>)
          /\ assignments > 0 => titles' = titles
          /\ cache.original_titles # None => cache'.original_titles = cache.original_titles
          /\ cache'.original_titles # None => cache'.original_titles[1] = C2_original_titles]_vars

\* resolve() has been called again on a release with titles
C11_ResolvedAgain == resolved /\ assignments >= 2 /\ titles # <<>>

=============================================================================
